---- MODULE Spec2Model ----
(***************************************************************************)
(* Orchestration core of the parallel multi-agent incident workflow:       *)
(* the graph of workflows/parallel_workflow.py, the task-unit contract of  *)
(* agents/base_agent.py and the eight agents.                              *)
(*                                                                         *)
(* Representation.  A Python dict is a function from key strings to        *)
(* values; {} is the function with the empty domain.  A Python list is a   *)
(* sequence.  Confidence is carried in percent (0.8 is 80).  Timestamps,   *)
(* the text of log lines and the numbers formatted into a message are not  *)
(* carried; "Mitigation failed: <details>" is the pair of its two parts.   *)
(*                                                                         *)
(* The collaborators (services/gemini, services/knowledge, services/email) *)
(* are taken at their interface: a call returns one of the values its      *)
(* signature allows, or raises.                                            *)
(*                                                                         *)
(* The graph engine is a library outside the source.  It is taken as the   *)
(* state schema declares it: a key with a reducer is reduced, any other    *)
(* key is overwritten by the update that names it, keys outside the schema *)
(* are not kept.  The three parallel nodes read the state as it was at     *)
(* fan-out and their updates are merged one at a time, in any order.       *)
(*                                                                         *)
(* No statement inside the try block of decision_maker_node can raise on   *)
(* the values the agents produce, so its except branch, and with it the    *)
(* node error_handler, is not reachable in a run.                          *)
(***************************************************************************)
EXTENDS Integers, Sequences, FiniteSets, TLC

VARIABLES
    ctx,        \* the graph state (the IncidentState channels)
    pc,         \* the node(s) the driver runs next, or "END"
    snapshot,   \* the state the parallel group was launched with
    upd,        \* parallel agent name -> the update it returned
    executed,   \* the nodes executed so far, in order
    prev,       \* the graph state before the last update was merged
    last,       \* the last update a node returned
    calls       \* node name -> what its collaborator call did in this run

vars == <<ctx, pc, snapshot, upd, executed, prev, last, calls>>

-----------------------------------------------------------------------------
(* Program constants and bounds *)

\* core/config.py: CONFIDENCE_THRESHOLD = 0.8, in percent
CONFIDENCE_THRESHOLD == 80

\* core/config.py: MAX_RETRIES = 3
MAX_RETRIES == 3

\* longest list a collaborator returns (anomalies, similar incidents)
MaxItems == 2

\* largest retry_count handed to decision_maker_node as an input
MaxRetryInput == 4

-----------------------------------------------------------------------------
(* Dicts and lists *)

EmptyDict == [k \in {} |-> 0]

Get(d, k, dflt) == IF k \in DOMAIN d THEN d[k] ELSE dflt

\* {**d, **u}
Update(d, u) == [k \in (DOMAIN d) \cup (DOMAIN u) |-> IF k \in DOMAIN u THEN u[k] ELSE d[k]]

Range(s) == {s[i] : i \in 1..Len(s)}

ListOf(x, n) == [i \in 1..n |-> x]

-----------------------------------------------------------------------------
(* The state schema and its merge *)

SchemaKeys ==
    {"incident_id", "raw_alert", "stage", "service", "severity", "description",
     "log_analysis_results", "knowledge_lookup_results", "root_cause_results",
     "agents_completed", "agent_errors",
     "decision", "decision_metrics", "escalation_reason",
     "next", "retry_count", "workflow_complete"}

\* the keys declared Annotated[List[...], add]
AddKeys == {"agents_completed", "agent_errors"}

\* Faulty variant of the reducer: the update replaces the list.
add_overwrites(a, b) == b

\* operator.add on two lists
add(a, b) == a \o b

\* One node's update applied to the graph state: a key of the schema that has
\* a reducer is reduced with it, any other key of the schema is overwritten,
\* and a key outside the schema is not part of the state.
Merge(c, u) ==
    [k \in SchemaKeys |->
        IF k \in DOMAIN u
        THEN IF k \in AddKeys THEN add(c[k], u[k]) ELSE u[k]
        ELSE c[k]]

\* two of the demo alerts of main.py
Alerts ==
    {"Payment API experiencing database connection timeouts and high error rates",
     "Auth Service showing memory leak patterns and degraded performance"}

\* The incident id is kept as the pieces its f-string joins: the prefix, the
\* date and the first eight characters of a uuid.
create_incident_state(raw_alert) ==
    [incident_id |-> <<"INC-", "20240101", "-", "1A2B3C4D">>,
     raw_alert |-> raw_alert,
     stage |-> "detected",
     service |-> "",
     severity |-> "",
     description |-> "",
     log_analysis_results |-> EmptyDict,
     knowledge_lookup_results |-> EmptyDict,
     root_cause_results |-> EmptyDict,
     agents_completed |-> <<>>,
     agent_errors |-> <<>>,
     decision |-> "",
     decision_metrics |-> EmptyDict,
     escalation_reason |-> <<>>,
     next |-> "",
     retry_count |-> 0,
     workflow_complete |-> FALSE]

\* Faulty variant of update_stage: the routing field is cleared with the stage.
update_stage_clears_next(state, new_stage) ==
    [state EXCEPT !["stage"] = new_stage, !["next"] = ""]

update_stage(state, new_stage) == [state EXCEPT !["stage"] = new_stage]

-----------------------------------------------------------------------------
(* The task-unit contract: BaseIncidentAgent *)

AgentNames ==
    {"incident_trigger", "log_analysis", "knowledge_lookup", "root_cause",
     "agent_coordinator", "mitigation", "escalation", "communicator"}

\* agent_name.lower().replace("_agent", "").replace(" ", "_"): none of the
\* eight names has an upper-case letter, a blank or the substring "_agent"
\* ("agent_coordinator" has "agent_", not "_agent").
get_agent_id(agent_name) ==
    CASE agent_name = "incident_trigger" -> "incident_trigger"
      [] agent_name = "log_analysis" -> "log_analysis"
      [] agent_name = "knowledge_lookup" -> "knowledge_lookup"
      [] agent_name = "root_cause" -> "root_cause"
      [] agent_name = "agent_coordinator" -> "agent_coordinator"
      [] agent_name = "mitigation" -> "mitigation"
      [] agent_name = "escalation" -> "escalation"
      [] agent_name = "communicator" -> "communicator"

\* f"{agent_id}_results"
get_result_key(agent_name) ==
    CASE get_agent_id(agent_name) = "incident_trigger" -> "incident_trigger_results"
      [] get_agent_id(agent_name) = "log_analysis" -> "log_analysis_results"
      [] get_agent_id(agent_name) = "knowledge_lookup" -> "knowledge_lookup_results"
      [] get_agent_id(agent_name) = "root_cause" -> "root_cause_results"
      [] get_agent_id(agent_name) = "agent_coordinator" -> "agent_coordinator_results"
      [] get_agent_id(agent_name) = "mitigation" -> "mitigation_results"
      [] get_agent_id(agent_name) = "escalation" -> "escalation_results"
      [] get_agent_id(agent_name) = "communicator" -> "communicator_results"

\* What process did: returned `result`, or raised `error` having left the
\* dict it was given as `state` (process mutates its argument in place).
Returned(result) == [raised |-> FALSE, result |-> result]
Raised(state, error) == [raised |-> TRUE, state |-> state, error |-> error]

\* Faulty variant of execute_completed: a result that already carries an
\* agents_completed list is returned as it is.
execute_completed_keeps_list(agent_name, result) ==
    IF "agents_completed" \notin DOMAIN result
    THEN Update(result, [agents_completed |-> <<get_agent_id(agent_name)>>])
    ELSE result

\* execute, the try branch after process returned
execute_completed(agent_name, result) ==
    IF "agents_completed" \notin DOMAIN result
    THEN Update(result, [agents_completed |-> <<get_agent_id(agent_name)>>])
    ELSE IF get_agent_id(agent_name) \notin Range(result["agents_completed"])
         THEN Update(result, [agents_completed |->
                  result["agents_completed"] \o <<get_agent_id(agent_name)>>])
         ELSE result

\* Faulty variant of execute_failed: the error is logged but the agent is not
\* marked as completed.
execute_failed_without_completion(agent_name, state, error) ==
    Update(Update(state, [k \in {get_result_key(agent_name)} |-> EmptyDict]),
           [agent_errors |-> <<[agent |-> agent_name, error |-> error]>>])

\* execute, the except branch
execute_failed(agent_name, state, error) ==
    Update(Update(state, [k \in {get_result_key(agent_name)} |-> EmptyDict]),
           [agents_completed |-> <<get_agent_id(agent_name)>>,
            agent_errors |-> <<[agent |-> agent_name, error |-> error]>>])

execute(agent_name, outcome) ==
    IF outcome.raised
    THEN execute_failed(agent_name, outcome.state, outcome.error)
    ELSE execute_completed(agent_name, outcome.result)

-----------------------------------------------------------------------------
(* The agents *)

\* parse_incident_alert: the JSON object of the model's answer, whatever keys
\* it has, or the fallback (raw_alert[:100] is the alert itself: the alerts
\* are shorter than 100 characters).
ParsedFields ==
    [service |-> "Payment API", severity |-> "HIGH", description |-> "database timeout"]

ParseOutcomes(raw_alert) ==
    {[k \in K |-> ParsedFields[k]] : K \in SUBSET {"service", "severity", "description"}}
    \cup {[service |-> "Unknown Service", severity |-> "MEDIUM", description |-> raw_alert]}

IncidentTriggerAgent_process(state, parsed) ==
    IF "service" \notin DOMAIN parsed THEN Raised(state, "KeyError: service")
    ELSE LET s1 == [state EXCEPT !["service"] = parsed["service"]] IN
    IF "severity" \notin DOMAIN parsed THEN Raised(s1, "KeyError: severity")
    ELSE LET s2 == [s1 EXCEPT !["severity"] = parsed["severity"]] IN
    IF "description" \notin DOMAIN parsed THEN Raised(s2, "KeyError: description")
    ELSE LET s3 == [s2 EXCEPT !["description"] = parsed["description"]] IN
    Returned([update_stage(s3, "analyzing") EXCEPT !["next"] = "parallel_agents"])

\* analyze_logs, find_similar_incidents, generate_root_cause, simulate_mitigation
CallRaised == [raised |-> TRUE]
CallReturned(v) == [raised |-> FALSE, value |-> v]

\* a node that calls no collaborator
NoCall == [raised |-> FALSE]

\* send_email: whether the mail was sent; it catches every exception
MailOutcomes == {TRUE, FALSE}

\* what a process got from its collaborators: the call, and the outcome of the
\* notification when the process attempted one
Notified(call, sent) == Update(call, [mail |-> sent])

WithMail(call, attempted) ==
    IF attempted THEN {Notified(call, sent) : sent \in MailOutcomes} ELSE {call}

AnalyzeOutcomes == {CallRaised} \cup {CallReturned(ListOf("anomaly", n)) : n \in 0..MaxItems}

SimilarOutcomes == {CallRaised} \cup {CallReturned(ListOf("incident", n)) : n \in 0..MaxItems}

Confidences == {0, 40, 79, 80, 92}

RootCauseOutcomes == {CallRaised} \cup {CallReturned(c) : c \in Confidences}

MitigationOutcomes ==
    {CallRaised, CallReturned(<<TRUE, "Mitigation executed">>),
     CallReturned(<<FALSE, "Mitigation executed">>)}

\* Faulty variant of LogAnalysisAgent.process: an analysis without anomalies
\* uses up all the retries at once.
LogAnalysisAgent_process_spends_retries(state, call) ==
    IF call.raised THEN Raised(state, "analyze_logs failed")
    ELSE LET retry_count == Get(state, "retry_count", 0)
             anomalies == call.value
             results == [service |-> Get(state, "service", "Unknown Service"),
                         anomalies |-> anomalies,
                         retry_count |-> retry_count,
                         anomalies_found |-> Len(anomalies) > 0]
             state1 == IF Len(anomalies) > 0 THEN state
                       ELSE Update(state, [retry_count |-> retry_count + MAX_RETRIES])
         IN Returned(Update(state1, [log_analysis_results |-> results]))

LogAnalysisAgent_process(state, call) ==
    IF call.raised THEN Raised(state, "analyze_logs failed")
    ELSE LET retry_count == Get(state, "retry_count", 0)
             anomalies == call.value
             results == [service |-> Get(state, "service", "Unknown Service"),
                         anomalies |-> anomalies,
                         retry_count |-> retry_count,
                         anomalies_found |-> Len(anomalies) > 0]
             state1 == IF Len(anomalies) > 0 THEN state
                       ELSE Update(state, [retry_count |-> retry_count + 1])
         IN Returned(Update(state1, [log_analysis_results |-> results]))

KnowledgeLookupAgent_process(state, call) ==
    IF call.raised THEN Raised(state, "find_similar_incidents failed")
    ELSE LET log_results == Get(state, "log_analysis_results", EmptyDict)
             anomalies == Get(log_results, "anomalies", <<>>)
             results == [service |-> Get(state, "service", "Unknown Service"),
                         search_keywords |-> IF anomalies = <<>> THEN "description"
                                             ELSE "anomalies",
                         similar_incidents |-> call.value,
                         similar_count |-> Len(call.value)]
         IN Returned([knowledge_lookup_results |-> results])

RootCauseAgent_process(state, call) ==
    IF call.raised THEN Raised(state, "generate_root_cause failed")
    ELSE LET log_results == Get(state, "log_analysis_results", EmptyDict)
             knowledge_results == Get(state, "knowledge_lookup_results", EmptyDict)
             similar_incidents == Get(knowledge_results, "similar_incidents", <<>>)
             results == [service |-> Get(state, "service", "Unknown Service"),
                         incident_info |-> IF "anomalies" \in DOMAIN log_results
                                           THEN "anomalies" ELSE "description",
                         root_cause |-> "cause",
                         confidence |-> call.value,
                         solution |-> "solution",
                         similar_incidents_used |-> Len(similar_incidents)]
         IN Returned([root_cause_results |-> results])

ExpectedAgents == {"log_analysis", "knowledge_lookup", "root_cause"}

AgentCoordinator_process(state) ==
    LET completed_agents == Get(state, "agents_completed", <<>>)
        missing_agents == {a \in ExpectedAgents : a \notin Range(completed_agents)}
    IN Returned(
        IF missing_agents # {}
        THEN Update(state, [coordination_status |-> "waiting",
                            missing_agents |-> missing_agents])
        ELSE Update(state, [coordination_status |-> "complete",
                            next |-> "decision_maker"]))

\* Faulty variant of MitigationAgent.process: a successful mitigation leaves
\* the stage at mitigating.
MitigationAgent_process_stays_mitigating(state, call) ==
    LET state1 == update_stage(state, "mitigating") IN
    IF call.raised THEN Raised(state1, "simulate_mitigation failed")
    ELSE LET success == call.value[1]
             details == call.value[2]
             state2 == IF success THEN state1
                       ELSE Update(state1, [mitigation_failed |-> TRUE,
                                            escalation_reason |->
                                                <<"Mitigation failed:", details>>])
         IN Returned(Update(state2,
                [mitigation_results |-> [success |-> success, details |-> details]]))

\* Faulty variant of MitigationAgent.process: a notification that was not
\* sent makes the process raise.
MitigationAgent_process_mail_required(state, call) ==
    LET state1 == update_stage(state, "mitigating") IN
    IF call.raised THEN Raised(state1, "simulate_mitigation failed")
    ELSE IF ~call.mail THEN Raised(state1, "send_mitigation_update failed")
    ELSE LET success == call.value[1]
             details == call.value[2]
             state2 == IF success THEN update_stage(state1, "resolved")
                       ELSE Update(state1, [mitigation_failed |-> TRUE,
                                            escalation_reason |->
                                                <<"Mitigation failed:", details>>])
         IN Returned(Update(state2,
                [mitigation_results |-> [success |-> success, details |-> details]]))

MitigationAgent_process(state, call) ==
    LET state1 == update_stage(state, "mitigating") IN
    IF call.raised THEN Raised(state1, "simulate_mitigation failed")
    ELSE LET success == call.value[1]
             details == call.value[2]
             state2 == IF success THEN update_stage(state1, "resolved")
                       ELSE Update(state1, [mitigation_failed |-> TRUE,
                                            escalation_reason |->
                                                <<"Mitigation failed:", details>>])
         IN Returned(Update(state2,
                [mitigation_results |-> [success |-> success, details |-> details]]))

\* Faulty variant of EscalationAgent.process: the stage is not updated.
EscalationAgent_process_keeps_stage(state) ==
    LET escalation_reason == Get(state, "escalation_reason", <<"Unknown escalation reason">>)
    IN Returned(Update(state,
            [escalation_results |-> [reason |-> escalation_reason,
                                     requires_human_intervention |-> TRUE]]))

\* Faulty variant of EscalationAgent.process: the task marks the workflow
\* complete itself.
EscalationAgent_process_marks_complete(state) ==
    LET escalation_reason == Get(state, "escalation_reason", <<"Unknown escalation reason">>)
        state1 == update_stage(state, "escalated")
    IN Returned(Update(state1,
            [workflow_complete |-> TRUE,
             escalation_results |-> [reason |-> escalation_reason,
                                     requires_human_intervention |-> TRUE]]))

\* Faulty variant of EscalationAgent.process: the reason of the decision is
\* not read, the default reason is recorded.
EscalationAgent_process_forgets_reason(state) ==
    LET escalation_reason == <<"Unknown escalation reason">>
        state1 == update_stage(state, "escalated")
    IN Returned(Update(state1,
            [escalation_results |-> [reason |-> escalation_reason,
                                     requires_human_intervention |-> TRUE]]))

EscalationAgent_process(state) ==
    LET escalation_reason == Get(state, "escalation_reason", <<"Unknown escalation reason">>)
        state1 == update_stage(state, "escalated")
    IN Returned(Update(state1,
            [escalation_results |-> [reason |-> escalation_reason,
                                     requires_human_intervention |-> TRUE]]))

\* Faulty variant of CommunicatorAgent.process: the completion is stamped but
\* the workflow is not marked complete.
CommunicatorAgent_process_leaves_open(state) ==
    Returned(Update(state, [completion_timestamp |-> "now"]))

\* Faulty variant of CommunicatorAgent.process: the final communication marks
\* the incident resolved.
CommunicatorAgent_process_resolves(state) ==
    Returned(Update(state, [stage |-> "resolved", workflow_complete |-> TRUE,
                            completion_timestamp |-> "now"]))

CommunicatorAgent_process(state) ==
    Returned(Update(state, [workflow_complete |-> TRUE, completion_timestamp |-> "now"]))

-----------------------------------------------------------------------------
(* The decision node and the routers *)

\* Faulty variant of decision_maker_node: the anomaly rule is tried before the
\* retry rule.
decision_maker_node_anomalies_first(state) ==
    LET log_results == Get(state, "log_analysis_results", EmptyDict)
        knowledge_results == Get(state, "knowledge_lookup_results", EmptyDict)
        root_cause_results == Get(state, "root_cause_results", EmptyDict)
        confidence == Get(root_cause_results, "confidence", 0)
        anomalies_found == Len(Get(log_results, "anomalies", <<>>)) > 0
        similar_incidents == Len(Get(knowledge_results, "similar_incidents", <<>>)) > 0
        retry_count == Get(state, "retry_count", 0)
        escalation_reason ==
            IF ~anomalies_found
            THEN <<"No anomalies detected in log analysis">>
            ELSE IF retry_count >= MAX_RETRIES
            THEN <<"Max retries reached without finding anomalies">>
            ELSE IF confidence < CONFIDENCE_THRESHOLD
            THEN <<"Low confidence in root cause analysis">>
            ELSE IF ~similar_incidents
            THEN <<"No similar historical incidents found for guidance">>
            ELSE <<>>
        decision == IF escalation_reason = <<>> THEN "auto_mitigation" ELSE "escalation"
        next_step == IF decision = "auto_mitigation" THEN "mitigation" ELSE "escalation"
    IN Update(state,
        [decision |-> decision,
         decision_metrics |->
            [confidence |-> confidence,
             anomalies_found |-> anomalies_found,
             similar_incidents_count |->
                 Len(Get(knowledge_results, "similar_incidents", <<>>)),
             retry_count |-> retry_count,
             escalation_reason |-> escalation_reason],
         escalation_reason |-> escalation_reason,
         stage |-> "decision_complete",
         next |-> next_step])

\* Faulty variant of decision_maker_node: the metrics are recorded only when
\* the decision is to escalate.
decision_maker_node_metrics_on_escalation(state) ==
    LET log_results == Get(state, "log_analysis_results", EmptyDict)
        knowledge_results == Get(state, "knowledge_lookup_results", EmptyDict)
        root_cause_results == Get(state, "root_cause_results", EmptyDict)
        confidence == Get(root_cause_results, "confidence", 0)
        anomalies_found == Len(Get(log_results, "anomalies", <<>>)) > 0
        similar_incidents == Len(Get(knowledge_results, "similar_incidents", <<>>)) > 0
        retry_count == Get(state, "retry_count", 0)
        escalation_reason ==
            IF retry_count >= MAX_RETRIES
            THEN <<"Max retries reached without finding anomalies">>
            ELSE IF ~anomalies_found
            THEN <<"No anomalies detected in log analysis">>
            ELSE IF confidence < CONFIDENCE_THRESHOLD
            THEN <<"Low confidence in root cause analysis">>
            ELSE IF ~similar_incidents
            THEN <<"No similar historical incidents found for guidance">>
            ELSE <<>>
        decision == IF escalation_reason = <<>> THEN "auto_mitigation" ELSE "escalation"
        next_step == IF decision = "auto_mitigation" THEN "mitigation" ELSE "escalation"
    IN Update(state,
        [decision |-> decision,
         decision_metrics |->
          IF decision = "auto_mitigation" THEN EmptyDict ELSE
            [confidence |-> confidence,
             anomalies_found |-> anomalies_found,
             similar_incidents_count |->
                 Len(Get(knowledge_results, "similar_incidents", <<>>)),
             retry_count |-> retry_count,
             escalation_reason |-> escalation_reason],
         escalation_reason |-> escalation_reason,
         stage |-> "decision_complete",
         next |-> next_step])

\* Faulty variant of decision_maker_node: the rule on similar historical
\* incidents is missing.
decision_maker_node_ignores_history(state) ==
    LET log_results == Get(state, "log_analysis_results", EmptyDict)
        knowledge_results == Get(state, "knowledge_lookup_results", EmptyDict)
        root_cause_results == Get(state, "root_cause_results", EmptyDict)
        confidence == Get(root_cause_results, "confidence", 0)
        anomalies_found == Len(Get(log_results, "anomalies", <<>>)) > 0
        similar_incidents == Len(Get(knowledge_results, "similar_incidents", <<>>)) > 0
        retry_count == Get(state, "retry_count", 0)
        escalation_reason ==
            IF retry_count >= MAX_RETRIES
            THEN <<"Max retries reached without finding anomalies">>
            ELSE IF ~anomalies_found
            THEN <<"No anomalies detected in log analysis">>
            ELSE IF confidence < CONFIDENCE_THRESHOLD
            THEN <<"Low confidence in root cause analysis">>
            ELSE <<>>
        decision == IF escalation_reason = <<>> THEN "auto_mitigation" ELSE "escalation"
        next_step == IF decision = "auto_mitigation" THEN "mitigation" ELSE "escalation"
    IN Update(state,
        [decision |-> decision,
         decision_metrics |->
            [confidence |-> confidence,
             anomalies_found |-> anomalies_found,
             similar_incidents_count |->
                 Len(Get(knowledge_results, "similar_incidents", <<>>)),
             retry_count |-> retry_count,
             escalation_reason |-> escalation_reason],
         escalation_reason |-> escalation_reason,
         stage |-> "decision_complete",
         next |-> next_step])

\* Faulty variant of decision_maker_node: a missing confidence is read as the
\* threshold itself.
decision_maker_node_trusts_missing(state) ==
    LET log_results == Get(state, "log_analysis_results", EmptyDict)
        knowledge_results == Get(state, "knowledge_lookup_results", EmptyDict)
        root_cause_results == Get(state, "root_cause_results", EmptyDict)
        confidence == Get(root_cause_results, "confidence", CONFIDENCE_THRESHOLD)
        anomalies_found == Len(Get(log_results, "anomalies", <<>>)) > 0
        similar_incidents == Len(Get(knowledge_results, "similar_incidents", <<>>)) > 0
        retry_count == Get(state, "retry_count", 0)
        escalation_reason ==
            IF retry_count >= MAX_RETRIES
            THEN <<"Max retries reached without finding anomalies">>
            ELSE IF ~anomalies_found
            THEN <<"No anomalies detected in log analysis">>
            ELSE IF confidence < CONFIDENCE_THRESHOLD
            THEN <<"Low confidence in root cause analysis">>
            ELSE IF ~similar_incidents
            THEN <<"No similar historical incidents found for guidance">>
            ELSE <<>>
        decision == IF escalation_reason = <<>> THEN "auto_mitigation" ELSE "escalation"
        next_step == IF decision = "auto_mitigation" THEN "mitigation" ELSE "escalation"
    IN Update(state,
        [decision |-> decision,
         decision_metrics |->
            [confidence |-> confidence,
             anomalies_found |-> anomalies_found,
             similar_incidents_count |->
                 Len(Get(knowledge_results, "similar_incidents", <<>>)),
             retry_count |-> retry_count,
             escalation_reason |-> escalation_reason],
         escalation_reason |-> escalation_reason,
         stage |-> "decision_complete",
         next |-> next_step])

decision_maker_node(state) ==
    LET log_results == Get(state, "log_analysis_results", EmptyDict)
        knowledge_results == Get(state, "knowledge_lookup_results", EmptyDict)
        root_cause_results == Get(state, "root_cause_results", EmptyDict)
        confidence == Get(root_cause_results, "confidence", 0)
        anomalies_found == Len(Get(log_results, "anomalies", <<>>)) > 0
        similar_incidents == Len(Get(knowledge_results, "similar_incidents", <<>>)) > 0
        retry_count == Get(state, "retry_count", 0)
        escalation_reason ==
            IF retry_count >= MAX_RETRIES
            THEN <<"Max retries reached without finding anomalies">>
            ELSE IF ~anomalies_found
            THEN <<"No anomalies detected in log analysis">>
            ELSE IF confidence < CONFIDENCE_THRESHOLD
            THEN <<"Low confidence in root cause analysis">>
            ELSE IF ~similar_incidents
            THEN <<"No similar historical incidents found for guidance">>
            ELSE <<>>
        decision == IF escalation_reason = <<>> THEN "auto_mitigation" ELSE "escalation"
        next_step == IF decision = "auto_mitigation" THEN "mitigation" ELSE "escalation"
    IN Update(state,
        [decision |-> decision,
         decision_metrics |->
            [confidence |-> confidence,
             anomalies_found |-> anomalies_found,
             similar_incidents_count |->
                 Len(Get(knowledge_results, "similar_incidents", <<>>)),
             retry_count |-> retry_count,
             escalation_reason |-> escalation_reason],
         escalation_reason |-> escalation_reason,
         stage |-> "decision_complete",
         next |-> next_step])

\* Faulty variant of route_to_parallel_agents: knowledge_lookup is left out of
\* the fan-out.
route_to_parallel_agents_forgets_knowledge(state) ==
    LET next_step == Get(state, "next", "end") IN
    IF next_step = "parallel_agents" THEN <<"log_analysis", "root_cause">>
    ELSE IF next_step = "error_handler" THEN <<"error_handler">>
    ELSE <<"END">>

\* The router returns the list of the nodes to run next; a single target is
\* kept as a list of one.
route_to_parallel_agents(state) ==
    LET next_step == Get(state, "next", "end") IN
    IF next_step = "parallel_agents" THEN <<"log_analysis", "knowledge_lookup", "root_cause">>
    ELSE IF next_step = "error_handler" THEN <<"error_handler">>
    ELSE <<"END">>

\* The conditional edge of the trigger: one target is the next node, several
\* targets are one parallel step.
Dispatch(targets) == IF Len(targets) = 1 THEN targets[1] ELSE "parallel_agents"

\* Faulty variant of route_after_coordination: recorded agent errors send the
\* run to the error handler.
route_after_coordination_fails_on_errors(state) ==
    IF "error" \in DOMAIN state \/ Get(state, "agent_errors", <<>>) # <<>>
    THEN "error_handler" ELSE "decision_maker"

route_after_coordination(state) ==
    IF "error" \in DOMAIN state THEN "error_handler" ELSE "decision_maker"

\* Faulty variant of route_after_decision: an escalation for lack of anomalies
\* goes back to the parallel group while retries are left.
route_after_decision_retries(state) ==
    LET next_step == Get(state, "next", "end") IN
    IF next_step = "mitigation" THEN "mitigation"
    ELSE IF next_step = "escalation"
         THEN IF 0 < Get(state, "retry_count", 0) /\ Get(state, "retry_count", 0) < MAX_RETRIES
              THEN "parallel_agents" ELSE "escalation"
    ELSE IF next_step = "error_handler" THEN "error_handler"
    ELSE "END"

\* Faulty variant of route_after_decision: the escalation branch is missing.
route_after_decision_without_escalation(state) ==
    LET next_step == Get(state, "next", "end") IN
    IF next_step = "mitigation" THEN "mitigation"
    ELSE IF next_step = "error_handler" THEN "error_handler"
    ELSE "END"

route_after_decision(state) ==
    LET next_step == Get(state, "next", "end") IN
    IF next_step = "mitigation" THEN "mitigation"
    ELSE IF next_step = "escalation" THEN "escalation"
    ELSE IF next_step = "error_handler" THEN "error_handler"
    ELSE "END"

-----------------------------------------------------------------------------
(* The graph driver *)

Init ==
    /\ \E raw_alert \in Alerts : ctx = create_incident_state(raw_alert)
    /\ pc = "incident_trigger"
    /\ snapshot = ctx
    /\ upd = EmptyDict
    /\ executed = <<>>
    /\ prev = ctx
    /\ last = EmptyDict
    /\ calls = EmptyDict

\* A node returned the update `u`, its process having raised or not after its
\* collaborator call did `call`; the driver merges the update.
NodeReturns(node, raised, call, u) ==
    /\ calls' = Update(calls, [n \in {node} |-> [raised |-> raised, call |-> call]])
    /\ ctx' = Merge(ctx, u)
    /\ prev' = ctx
    /\ last' = u
    /\ executed' = Append(executed, node)

\* wrapped_execute of an agent whose process did `outcome`
AgentReturns(agent_name, call, outcome) ==
    NodeReturns(agent_name, outcome.raised, call, execute(agent_name, outcome))

IncidentTrigger ==
    /\ pc = "incident_trigger"
    /\ \E parsed \in ParseOutcomes(ctx["raw_alert"]) :
       \E call \in WithMail(CallReturned(parsed), DOMAIN ParsedFields \subseteq DOMAIN parsed) :
          AgentReturns("incident_trigger", call,
              IncidentTriggerAgent_process(ctx, parsed))
    /\ pc' = Dispatch(route_to_parallel_agents(ctx'))
    /\ snapshot' = ctx'
    /\ UNCHANGED upd

\* Faulty variant of ParallelReturns: the coordinator follows the first agent
\* that returns, without waiting for the others.
ParallelReturns_no_barrier(agent_name, call, outcome) ==
    /\ pc = "parallel_agents"
    /\ agent_name \notin DOMAIN upd
    /\ AgentReturns(agent_name, call, outcome)
    /\ upd' = Update(upd, [a \in {agent_name} |-> execute(agent_name, outcome)])
    /\ pc' = "agent_coordinator"
    /\ UNCHANGED snapshot

\* Faulty variant of ParallelReturns: the coordinator starts as soon as two
\* of the three agents returned.
ParallelReturns_joins_on_two(agent_name, call, outcome) ==
    /\ pc = "parallel_agents"
    /\ agent_name \notin DOMAIN upd
    /\ AgentReturns(agent_name, call, outcome)
    /\ upd' = Update(upd, [a \in {agent_name} |-> execute(agent_name, outcome)])
    /\ pc' = IF Cardinality(DOMAIN upd') >= 2 THEN "agent_coordinator" ELSE pc
    /\ UNCHANGED snapshot

\* One of the three parallel nodes returns: it ran on the snapshot taken at
\* fan-out, and its update is merged when it arrives.
ParallelReturns(agent_name, call, outcome) ==
    /\ pc = "parallel_agents"
    /\ agent_name \notin DOMAIN upd
    /\ AgentReturns(agent_name, call, outcome)
    /\ upd' = Update(upd, [a \in {agent_name} |-> execute(agent_name, outcome)])
    /\ pc' = IF DOMAIN upd' = ExpectedAgents THEN "agent_coordinator" ELSE pc
    /\ UNCHANGED snapshot

LogAnalysis ==
    \E analyzed \in AnalyzeOutcomes :
    \E call \in WithMail(analyzed, ~analyzed.raised /\ analyzed.value # <<>>) :
        ParallelReturns("log_analysis", call, LogAnalysisAgent_process(snapshot, call))

\* Faulty variant of the node knowledge_lookup: it runs on the state as merged
\* so far, as it would behind an edge from log_analysis.
KnowledgeLookup_reads_merged ==
    \E call \in SimilarOutcomes :
        ParallelReturns("knowledge_lookup", call,
            KnowledgeLookupAgent_process(ctx, call))

KnowledgeLookup ==
    \E call \in SimilarOutcomes :
        ParallelReturns("knowledge_lookup", call,
            KnowledgeLookupAgent_process(snapshot, call))

RootCause ==
    \E generated \in RootCauseOutcomes :
    \E call \in WithMail(generated, ~generated.raised) :
        ParallelReturns("root_cause", call, RootCauseAgent_process(snapshot, call))

AgentCoordinator ==
    /\ pc = "agent_coordinator"
    /\ AgentReturns("agent_coordinator", NoCall, AgentCoordinator_process(ctx))
    /\ pc' = route_after_coordination(ctx')
    /\ UNCHANGED <<snapshot, upd>>

DecisionMaker ==
    /\ pc = "decision_maker"
    /\ NodeReturns("decision_maker", FALSE, NoCall, decision_maker_node(ctx))
    /\ pc' = route_after_decision(ctx')
    /\ UNCHANGED <<snapshot, upd>>

Mitigation ==
    /\ pc = "mitigation"
    /\ \E simulated \in MitigationOutcomes :
       \E call \in WithMail(simulated, ~simulated.raised) :
          AgentReturns("mitigation", call, MitigationAgent_process(ctx, call))
    /\ pc' = "communicator"
    /\ UNCHANGED <<snapshot, upd>>

Escalation ==
    /\ pc = "escalation"
    /\ \E call \in WithMail(NoCall, TRUE) :
          AgentReturns("escalation", call, EscalationAgent_process(ctx))
    /\ pc' = "communicator"
    /\ UNCHANGED <<snapshot, upd>>

Communicator ==
    /\ pc = "communicator"
    /\ AgentReturns("communicator", NoCall, CommunicatorAgent_process(ctx))
    /\ pc' = "END"
    /\ UNCHANGED <<snapshot, upd>>

Next ==
    \/ IncidentTrigger
    \/ LogAnalysis
    \/ KnowledgeLookup
    \/ RootCause
    \/ AgentCoordinator
    \/ DecisionMaker
    \/ Mitigation
    \/ Escalation
    \/ Communicator

Spec == Init /\ [][Next]_vars

-----------------------------------------------------------------------------
(* Properties *)

Ended == pc = "END"

Ran(node) == node \in Range(executed)

LastRan(node) == executed # <<>> /\ executed[Len(executed)] = node

Failed(node) == node \in DOMAIN calls /\ calls[node].raised

Count(x, s) == Cardinality({i \in 1..Len(s) : s[i] = x})

SameElements(s, t) == \A x \in Range(s) \cup Range(t) : Count(x, s) = Count(x, t)

NoDuplicates(s) == \A x \in Range(s) : Count(x, s) = 1

\* the arrival orders of the three parallel updates
ArrivalOrders ==
    {o \in [1..3 -> ExpectedAgents] : \A i, j \in 1..3 : o[i] = o[j] => i = j}

MergeInOrder(c, updates, o) == Merge(Merge(Merge(c, updates[o[1]]), updates[o[2]]), updates[o[3]])

\* C1 (terminal closure): every run that has ended has workflow_complete = true
\* and a non-empty stage label, whatever the collaborators did.
C1_TerminalClosure ==
    Ended => ctx["workflow_complete"] /\ ctx["stage"] # ""

\* C2 (fan-in completeness): the step that executes decision_maker is taken only
\* from a state whose agents_completed names log_analysis, knowledge_lookup and
\* root_cause; when the third parallel agent returns, agent_coordinator is next,
\* and the step of agent_coordinator always hands over to decision_maker - also
\* when every parallel update is an error-only one.
C2_FanInCompleteness ==
    [][/\ (~Ran("decision_maker") /\ Ran("decision_maker")')
            => ExpectedAgents \subseteq Range(ctx["agents_completed"])
       /\ (DOMAIN upd' = ExpectedAgents /\ DOMAIN upd # ExpectedAgents)
            => pc' = "agent_coordinator"
       /\ pc = "agent_coordinator"
            => pc' = "decision_maker" /\ LastRan("agent_coordinator")']_vars

C2_Witness ==
    /\ Ran("decision_maker")
    /\ \A a \in ExpectedAgents : Failed(a)

\* C3 (order independence): when agent_coordinator is about to run, the merged
\* context equals, field by field, the merge of the three parallel updates in
\* every other arrival order (the two list fields compared up to order).
SameContext(c, d) ==
    /\ \A k \in SchemaKeys \ AddKeys : c[k] = d[k]
    /\ \A k \in AddKeys : SameElements(c[k], d[k])

C3_OrderIndependence ==
    pc = "agent_coordinator"
        => \A o \in ArrivalOrders : SameContext(MergeInOrder(snapshot, upd, o), ctx)

\* C4 (failure containment): when exactly one parallel agent raised, then at
\* decision time the result slots of the other two hold the values those two
\* returned, and the slot of the one that raised is empty.
C4_FailureContainment ==
    (pc = "decision_maker" /\ Cardinality({a \in ExpectedAgents : Failed(a)}) = 1)
        => \A a \in ExpectedAgents :
              ctx[get_result_key(a)] =
                  IF Failed(a) THEN EmptyDict ELSE upd[a][get_result_key(a)]

\* C5 (idempotent merge): merging the update that was merged last once more
\* leaves agents_completed and agent_errors as they are, and no agent name is
\* twice in agents_completed.
C5_IdempotentMerge ==
    /\ Merge(ctx, last)["agents_completed"] = ctx["agents_completed"]
    /\ Merge(ctx, last)["agent_errors"] = ctx["agent_errors"]
    /\ NoDuplicates(ctx["agents_completed"])

-----------------------------------------------------------------------------
(* decision_maker_node on its own: every combination of its inputs *)

LogAnalysisResults ==
    {EmptyDict} \cup
    {[service |-> "Payment API", anomalies |-> ListOf("anomaly", n),
      retry_count |-> 0, anomalies_found |-> n > 0] : n \in 0..MaxItems}

KnowledgeLookupResults ==
    {EmptyDict} \cup
    {[service |-> "Payment API", search_keywords |-> "description",
      similar_incidents |-> ListOf("incident", n), similar_count |-> n] : n \in 0..MaxItems}

RootCauseResults ==
    {EmptyDict} \cup
    {[service |-> "Payment API", incident_info |-> "description", root_cause |-> "cause",
      confidence |-> c, solution |-> "solution", similar_incidents_used |-> 0] :
        c \in Confidences}

DecisionInputs ==
    {Update(create_incident_state(raw_alert),
        [stage |-> "analyzing", next |-> "decision_maker", retry_count |-> r,
         log_analysis_results |-> l, knowledge_lookup_results |-> k,
         root_cause_results |-> c]) :
        raw_alert \in Alerts, r \in 0..MaxRetryInput, l \in LogAnalysisResults,
        k \in KnowledgeLookupResults, c \in RootCauseResults}

InitDecision ==
    /\ ctx \in DecisionInputs
    /\ pc = "decision_maker"
    /\ snapshot = ctx
    /\ upd = EmptyDict
    /\ executed = <<>>
    /\ prev = ctx
    /\ last = EmptyDict
    /\ calls = EmptyDict

NextDecision == DecisionMaker

SpecDecision == InitDecision /\ [][NextDecision]_vars

\* The five rules of the decision, in their order of priority.
RuleMatches(i, state) ==
    CASE i = 1 -> state["retry_count"] >= MAX_RETRIES
      [] i = 2 -> Get(state["log_analysis_results"], "anomalies", <<>>) = <<>>
      [] i = 3 -> Get(state["root_cause_results"], "confidence", 0) < CONFIDENCE_THRESHOLD
      [] i = 4 -> Get(state["knowledge_lookup_results"], "similar_incidents", <<>>) = <<>>
      [] i = 5 -> TRUE

FirstRule(state) ==
    CHOOSE i \in 1..5 : RuleMatches(i, state) /\ \A j \in 1..(i - 1) : ~RuleMatches(j, state)

RuleBranch(i) == IF i = 5 THEN "auto_mitigation" ELSE "escalation"

RuleReason(i) ==
    CASE i = 1 -> <<"Max retries reached without finding anomalies">>
      [] i = 2 -> <<"No anomalies detected in log analysis">>
      [] i = 3 -> <<"Low confidence in root cause analysis">>
      [] i = 4 -> <<"No similar historical incidents found for guidance">>
      [] i = 5 -> <<>>

\* C6 (decision priority): after decision_maker_node ran on a context, the
\* decision is the branch of the first rule, in the order retries, anomalies,
\* confidence, similar incidents, that the context matches, and the reason
\* recorded (in escalation_reason and in the metrics) is that rule's reason.
C6_DecisionPriority ==
    LastRan("decision_maker")
        => /\ ctx["decision"] = RuleBranch(FirstRule(prev))
           /\ ctx["escalation_reason"] = RuleReason(FirstRule(prev))
           /\ ctx["decision_metrics"]["escalation_reason"] = RuleReason(FirstRule(prev))

C6_Witness ==
    /\ LastRan("decision_maker")
    /\ prev["retry_count"] >= MAX_RETRIES
    /\ RuleMatches(2, prev) /\ RuleMatches(3, prev) /\ RuleMatches(4, prev)
    /\ ctx["escalation_reason"] = RuleReason(1)

\* C7 (mitigation failure becomes an escalation): a run whose decision was
\* auto_mitigation and whose mitigation call reported success = false has run
\* the escalation task, and ends with stage = escalated and an escalation
\* reason that begins with "Mitigation failed:".
MitigationReportedFailure ==
    /\ "mitigation" \in DOMAIN calls
    /\ ~calls["mitigation"].raised
    /\ ~calls["mitigation"].call.value[1]

C7_MitigationFailureEscalates ==
    (Ended /\ ctx["decision"] = "auto_mitigation" /\ MitigationReportedFailure)
        => /\ Ran("escalation")
           /\ ctx["stage"] = "escalated"
           /\ ctx["escalation_reason"] # <<>>
           /\ Head(ctx["escalation_reason"]) = "Mitigation failed:"

\* C8 (one failure, one error-log entry): a run in which log_analysis raised
\* and no other task failed decides escalation for want of anomalies, and ends
\* with exactly one entry in agent_errors, naming log_analysis.
C8_OneErrorEntry ==
    (Ended /\ Failed("log_analysis") /\ \A n \in DOMAIN calls : Failed(n) => n = "log_analysis")
        => /\ ctx["decision"] = "escalation"
           /\ ctx["escalation_reason"] = <<"No anomalies detected in log analysis">>
           /\ Len(ctx["agent_errors"]) = 1
           /\ ctx["agent_errors"][1]["agent"] = "log_analysis"

\* C9 (a failing task still reports done): the update each parallel agent
\* returned, whether its process returned or raised, names the agent in
\* agents_completed; and a run that got past the trigger ends with
\* log_analysis, knowledge_lookup and root_cause in agents_completed.
C9_FailingTaskReportsDone ==
    /\ \A a \in DOMAIN upd :
          /\ "agents_completed" \in DOMAIN upd[a]
          /\ get_agent_id(a) \in Range(upd[a]["agents_completed"])
    /\ (Ended /\ Ran("incident_trigger") /\ ~Failed("incident_trigger"))
          => ExpectedAgents \subseteq Range(ctx["agents_completed"])

C9_Witness ==
    /\ Ended
    /\ Failed("log_analysis") /\ Failed("root_cause") /\ ~Failed("knowledge_lookup")
    /\ ExpectedAgents \subseteq Range(ctx["agents_completed"])

\* C10 (the error handler is the only early abort): a run that ended without
\* executing the communicator executed error_handler.
C10_OnlyEarlyAbort ==
    (Ended /\ ~Ran("communicator")) => Ran("error_handler")

-----------------------------------------------------------------------------
(* Stages, branches and the frame of the updates *)

LastNode == executed[Len(executed)]

MitigationReportedSuccess ==
    /\ "mitigation" \in DOMAIN calls
    /\ ~calls["mitigation"].raised
    /\ calls["mitigation"].call.value[1]

\* C11 (terminal stage): a run that has ended has the stage resolved, escalated
\* or error_handled.
C11_TerminalStage ==
    Ended => ctx["stage"] \in {"resolved", "escalated", "error_handled"}

\* non-empty anomalies, confidence at or above the threshold, non-empty similar
\* incidents and retries left
Healthy(state) == FirstRule(state) = 5

\* C12 (successful auto-mitigation): decision_maker run on a merged context
\* with anomalies, confidence >= CONFIDENCE_THRESHOLD, similar incidents and
\* retry_count < MAX_RETRIES decides auto_mitigation and hands over to the
\* mitigation task; and a run whose mitigation call reported success ends with
\* stage = resolved and workflow_complete = true.
C12_AutoMitigationResolves ==
    /\ (LastRan("decision_maker") /\ Healthy(prev))
          => ctx["decision"] = "auto_mitigation" /\ pc = "mitigation"
    /\ (Ended /\ MitigationReportedSuccess)
          => /\ ctx["decision"] = "auto_mitigation"
             /\ ctx["stage"] = "resolved"
             /\ ctx["workflow_complete"]

C12_Witness ==
    /\ Ended
    /\ MitigationReportedSuccess
    /\ Healthy(ctx)
    /\ ctx["root_cause_results"]["confidence"] = 92

\* C13 (escalation branch): the step after a decision for escalation is the
\* escalation task, whose update sets stage = escalated and
\* requires_human_intervention = true; the step after the escalation task is
\* the communicator; and a run that decided escalation ends with
\* stage = escalated.
C13_EscalationBranch ==
    [][/\ (LastRan("decision_maker") /\ ctx["decision"] = "escalation")
            => /\ LastRan("escalation")'
               /\ last'["stage"] = "escalated"
               /\ last'["escalation_results"]["requires_human_intervention"]
               /\ ctx'["stage"] = "escalated"
       /\ LastRan("escalation") => LastRan("communicator")'
       /\ (Ended' /\ ctx'["decision"] = "escalation")
            => /\ ctx'["stage"] = "escalated"
               /\ SubSeq(executed', Len(executed') - 2, Len(executed'))
                      = <<"decision_maker", "escalation", "communicator">>]_vars

C13_Witness ==
    /\ Ended
    /\ ctx["decision"] = "escalation"
    /\ ctx["escalation_reason"] = <<"Low confidence in root cause analysis">>
    /\ ctx["stage"] = "escalated"

IsPrefix(s, t) == Len(s) <= Len(t) /\ SubSeq(t, 1, Len(s)) = s

\* C14 (the collections only grow): in every step the names in
\* agents_completed are kept and agent_errors is extended at its end, also when
\* the update merged is a whole context.
C14_CollectionsGrow ==
    [][/\ Range(ctx["agents_completed"]) \subseteq Range(ctx'["agents_completed"])
       /\ IsPrefix(ctx["agent_errors"], ctx'["agent_errors"])]_vars

C14_Witness ==
    /\ executed # <<>>
    /\ LastNode \in ExpectedAgents
    /\ Failed(LastNode)
    /\ prev["agent_errors"] # <<>>
    /\ DOMAIN last = SchemaKeys \cup {get_result_key(LastNode)}
    /\ Len(ctx["agent_errors"]) = Len(prev["agent_errors"]) + 1

C16_TerminalFlagStable ==
    ctx["workflow_complete"]
        => Ended /\ LastRan("communicator") /\ ~ENABLED Next

C16_Witness ==
    /\ ctx["workflow_complete"]
    /\ Ended
    /\ Ran("mitigation")

\* C17 (frame of a failing task): the update returned by a task whose process
\* raised writes agents_completed (the task's own name) and agent_errors (one
\* entry naming the task) and no other key.
C17_FailureUpdateFrame ==
    (executed # <<>> /\ Failed(LastNode))
        => /\ DOMAIN last = {"agents_completed", "agent_errors"}
           /\ last["agents_completed"] = <<get_agent_id(LastNode)>>
           /\ Len(last["agent_errors"]) = 1
           /\ last["agent_errors"][1]["agent"] = LastNode

\* C18 (delta-only parallel updates): the update a parallel agent returned
\* after its process succeeded writes its own result slot and the completion
\* and error entries, and no other key.
C18_DeltaOnlyUpdates ==
    \A a \in DOMAIN upd :
        ~Failed(a)
            => DOMAIN upd[a] \subseteq {get_result_key(a), "agents_completed", "agent_errors"}

\* C19 (snapshot isolation): the parallel agents run on the context the trigger
\* left, whose result slots are empty; whatever was merged before it ran,
\* knowledge_lookup searched with the description keywords, root_cause used the
\* description and zero similar incidents, and what log_analysis or a failing
\* agent hands back of its siblings' slots is the empty slot it read.
C19_SnapshotIsolation ==
    /\ pc = "parallel_agents"
          => /\ snapshot["log_analysis_results"] = EmptyDict
             /\ snapshot["knowledge_lookup_results"] = EmptyDict
             /\ snapshot["root_cause_results"] = EmptyDict
    /\ \A a \in DOMAIN upd :
          /\ (a = "knowledge_lookup" /\ ~Failed(a))
                => upd[a]["knowledge_lookup_results"]["search_keywords"] = "description"
          /\ (a = "root_cause" /\ ~Failed(a))
                => /\ upd[a]["root_cause_results"]["similar_incidents_used"] = 0
                   /\ upd[a]["root_cause_results"]["incident_info"] = "description"
          /\ \A b \in ExpectedAgents \ {a} :
                get_result_key(b) \in DOMAIN upd[a]
                    => upd[a][get_result_key(b)] = EmptyDict

C19_Witness ==
    /\ DOMAIN upd = ExpectedAgents
    /\ SubSeq(executed, 2, 4) = <<"log_analysis", "knowledge_lookup", "root_cause">>
    /\ \A a \in ExpectedAgents : ~Failed(a)
    /\ Len(upd["log_analysis"]["log_analysis_results"]["anomalies"]) > 0
    /\ Len(upd["knowledge_lookup"]["knowledge_lookup_results"]["similar_incidents"]) > 0
    /\ upd["knowledge_lookup"]["knowledge_lookup_results"]["search_keywords"] = "description"
    /\ upd["root_cause"]["root_cause_results"]["similar_incidents_used"] = 0

\* C20 (decision metrics): after decision_maker_node ran, decision_metrics has
\* exactly the keys confidence, anomalies_found, similar_incidents_count,
\* retry_count and escalation_reason, with the values the node read from the
\* context, on both branches; and the reason is empty if and only if the
\* decision is auto_mitigation.
C20_DecisionMetrics ==
    LastRan("decision_maker")
        => /\ DOMAIN ctx["decision_metrics"] =
                  {"confidence", "anomalies_found", "similar_incidents_count",
                   "retry_count", "escalation_reason"}
           /\ ctx["decision_metrics"]["confidence"]
                  = Get(prev["root_cause_results"], "confidence", 0)
           /\ ctx["decision_metrics"]["anomalies_found"]
                  = (Get(prev["log_analysis_results"], "anomalies", <<>>) # <<>>)
           /\ ctx["decision_metrics"]["similar_incidents_count"]
                  = Len(Get(prev["knowledge_lookup_results"], "similar_incidents", <<>>))
           /\ ctx["decision_metrics"]["retry_count"] = prev["retry_count"]
           /\ ctx["decision_metrics"]["escalation_reason"] = ctx["escalation_reason"]
           /\ ctx["decision"] \in {"auto_mitigation", "escalation"}
           /\ (ctx["escalation_reason"] = <<>>) <=> (ctx["decision"] = "auto_mitigation")

C20_Witness ==
    /\ LastRan("decision_maker")
    /\ ctx["decision"] = "auto_mitigation"
    /\ ctx["decision_metrics"]["escalation_reason"] = <<>>
    /\ ctx["decision_metrics"]["similar_incidents_count"] = MaxItems
    /\ ctx["decision_metrics"]["confidence"] = 92

-----------------------------------------------------------------------------
(* Failures of the agents, of the trigger and of the notifications *)

\* C21 (errors in the parallel group do not fail the run): with errors logged
\* by the parallel agents, agent_coordinator still routes to decision_maker;
\* decision_maker reads an empty result slot as no evidence (confidence 0, no
\* anomalies, no similar incidents) and always returns one of the two branches.
C21_AgentErrorsDoNotFailRun ==
    /\ (LastRan("agent_coordinator") /\ ctx["agent_errors"] # <<>>)
          => /\ pc = "decision_maker"
             /\ ctx["next"] = "decision_maker"
             /\ "error" \notin DOMAIN last
    /\ LastRan("decision_maker")
          => /\ pc \in {"mitigation", "escalation"}
             /\ pc = ctx["decision"] \/ (pc = "mitigation" /\ ctx["decision"] = "auto_mitigation")
             /\ prev["root_cause_results"] = EmptyDict
                   => /\ ctx["decision_metrics"]["confidence"] = 0
                      /\ ctx["decision"] = "escalation"
             /\ prev["log_analysis_results"] = EmptyDict
                   => /\ ~ctx["decision_metrics"]["anomalies_found"]
                      /\ ctx["decision"] = "escalation"
             /\ prev["knowledge_lookup_results"] = EmptyDict
                   => ctx["decision_metrics"]["similar_incidents_count"] = 0

C21_Witness ==
    /\ LastRan("decision_maker")
    /\ Failed("root_cause") /\ Failed("knowledge_lookup")
    /\ ~Failed("log_analysis")
    /\ prev["agent_errors"] # <<>>
    /\ prev["root_cause_results"] = EmptyDict
    /\ prev["knowledge_lookup_results"] = EmptyDict
    /\ pc = "escalation"

\* C22 (trigger failure does not propagate): whatever the parsing of the alert
\* gave, after the trigger the classification fields are set, next is
\* parallel_agents and the three parallel agents are launched.
C22_TriggerFailureContained ==
    LastRan("incident_trigger")
        => /\ ctx["next"] = "parallel_agents"
           /\ pc = "parallel_agents"
           /\ ctx["service"] # "" /\ ctx["severity"] # "" /\ ctx["description"] # ""

-----------------------------------------------------------------------------
(* The error handler *)

\* No run of Spec enters error_handler: the node is driven here from the
\* states in which the except branch of decision_maker_node would leave the
\* context, the only code that sets next to error_handler.

\* the except branch of decision_maker_node
decision_maker_node_failed(state) ==
    Update(state, [error |-> "error", next |-> "error_handler", stage |-> "decision_error"])

\* send_escalation_alert: returns whether the mail was sent, or raises
NotifyOutcomes == {CallRaised, CallReturned(TRUE), CallReturned(FALSE)}

\* Faulty variant of error_handler_node: when the notification raises, the
\* node gives up without closing the run.
error_handler_node_gives_up(state, call) ==
    IF call.raised
    THEN Update(state, [stage |-> "error_handling_failed"])
    ELSE Update(state, [stage |-> "error_handled", workflow_complete |-> TRUE,
                        error_handled |-> TRUE])

error_handler_node(state, call) ==
    IF call.raised
    THEN Update(state, [stage |-> "error_handling_failed", workflow_complete |-> TRUE])
    ELSE Update(state, [stage |-> "error_handled", workflow_complete |-> TRUE,
                        error_handled |-> TRUE])

ErrorHandlerInputs ==
    {Merge(state, decision_maker_node_failed(state)) : state \in DecisionInputs}

InitErrorHandler ==
    /\ ctx \in ErrorHandlerInputs
    /\ pc = route_after_decision(ctx)
    /\ snapshot = ctx
    /\ upd = EmptyDict
    /\ executed = <<>>
    /\ prev = ctx
    /\ last = EmptyDict
    /\ calls = EmptyDict

ErrorHandler ==
    /\ pc = "error_handler"
    /\ \E call \in NotifyOutcomes :
          NodeReturns("error_handler", FALSE, call, error_handler_node(ctx, call))
    /\ pc' = "END"
    /\ UNCHANGED <<snapshot, upd>>

NextErrorHandler == ErrorHandler

SpecErrorHandler == InitErrorHandler /\ [][NextErrorHandler]_vars

\* C23 (the error handler force-terminates): a run that entered error_handler
\* runs it once, with one notification attempt, and ends with
\* workflow_complete set, whether the notification was sent, was not sent or
\* raised; nothing runs after it.
C23_ErrorHandlerTerminates ==
    /\ pc \in {"error_handler", "END"}
    /\ pc = "error_handler" => executed = <<>> /\ ENABLED ErrorHandler
    /\ pc = "END"
          => /\ executed = <<"error_handler">>
             /\ DOMAIN calls = {"error_handler"}
             /\ calls["error_handler"].call \in NotifyOutcomes
             /\ ctx["workflow_complete"]
             /\ ctx["stage"] = IF calls["error_handler"].call.raised
                               THEN "error_handling_failed" ELSE "error_handled"
             /\ ~ENABLED NextErrorHandler

C23_Witness ==
    /\ Ended
    /\ LastRan("error_handler")
    /\ calls["error_handler"].call.raised
    /\ prev["next"] = "error_handler"
    /\ ~prev["workflow_complete"]
    /\ ctx["workflow_complete"]

-----------------------------------------------------------------------------
(* The end of a run and the order of its nodes *)

\* C24 (finalize completes the run): once mitigation or escalation ran, the
\* communicator is the next node; at the end of such a run the communicator
\* ran exactly once, right after mitigation or escalation and last of all, its
\* update sets workflow_complete and a completion_timestamp, and no node can
\* run any more.
C24_FinalizeCompletes ==
    (Ran("mitigation") \/ Ran("escalation"))
        => /\ ~Ended => /\ pc = "communicator"
                        /\ ~Ran("communicator")
           /\ Ended => /\ Count("communicator", executed) = 1
                       /\ LastNode = "communicator"
                       /\ executed[Len(executed) - 1] \in {"mitigation", "escalation"}
                       /\ "workflow_complete" \in DOMAIN last /\ last["workflow_complete"]
                       /\ "completion_timestamp" \in DOMAIN last
                       /\ ctx["workflow_complete"]
                       /\ ~ENABLED Next

C24_Witness ==
    /\ Ended
    /\ Failed("mitigation")
    /\ executed[Len(executed) - 1] = "mitigation"
    /\ LastNode = "communicator"
    /\ ctx["workflow_complete"]
    /\ "completion_timestamp" \in DOMAIN last

\* C25 (no automatic re-run): each of log_analysis, knowledge_lookup and
\* root_cause runs at most once in a run, and the parallel group is never
\* entered again once a later node ran, whatever the retry counter and the
\* outcome of the mitigation.
C25_NoRerun ==
    /\ \A a \in ExpectedAgents : Count(a, executed) <= 1
    /\ pc = "parallel_agents"
          => Range(executed) \subseteq {"incident_trigger"} \cup ExpectedAgents
    /\ pc \in {"mitigation", "escalation", "communicator", "END"}
          => ~ENABLED (LogAnalysis \/ KnowledgeLookup \/ RootCause)

C25_Witness ==
    /\ Ended
    /\ ctx["retry_count"] = 1
    /\ Ran("escalation")
    /\ \A a \in ExpectedAgents : Count(a, executed) = 1

-----------------------------------------------------------------------------
(* Notifications *)

NotifyingNodes == {"incident_trigger", "log_analysis", "root_cause", "mitigation", "escalation"}

\* the update a notifying node returns for the state it ran on and what its
\* collaborators did
UpdateOf(node, state, call) ==
    execute(node,
        CASE node = "incident_trigger" -> IncidentTriggerAgent_process(state, call.value)
          [] node = "log_analysis" -> LogAnalysisAgent_process(state, call)
          [] node = "root_cause" -> RootCauseAgent_process(state, call)
          [] node = "mitigation" -> MitigationAgent_process(state, call)
          [] node = "escalation" -> EscalationAgent_process(state))

MailFailed(node) ==
    /\ node \in DOMAIN calls
    /\ "mail" \in DOMAIN calls[node].call
    /\ ~calls[node].call.mail

\* C26 (notifications are best-effort): whenever a node attempted a
\* notification, the update it returned is the one it returns with the mail
\* sent and the one it returns with the mail not sent, the node is not counted
\* as failed and its update carries no error entry naming it; hence the
\* context, the route taken, the decision and the stage are the same.
C26_NotificationsBestEffort ==
    [][\A node \in NotifyingNodes :
          (/\ executed' # executed
           /\ LastRan(node)'
           /\ "mail" \in DOMAIN calls'[node].call)
              => /\ \A sent \in MailOutcomes :
                       last' = UpdateOf(node,
                                        IF node \in ExpectedAgents THEN snapshot ELSE ctx,
                                        Notified(calls'[node].call, sent))
                 /\ ~calls'[node].raised
                 /\ \A i \in 1..Len(Get(last', "agent_errors", <<>>)) :
                       last'["agent_errors"][i]["agent"] # node]_vars

C26_Witness ==
    /\ Ended
    /\ MailFailed("incident_trigger")
    /\ MailFailed("log_analysis")
    /\ MailFailed("root_cause")
    /\ MailFailed("mitigation")
    /\ ctx["agent_errors"] = <<>>
    /\ ctx["stage"] = "resolved"
    /\ ctx["workflow_complete"]

-----------------------------------------------------------------------------
(* The initial context and the routing tables *)

Stages ==
    {"detected", "analyzing", "decision_complete", "mitigating", "resolved", "escalated"}

\* C27 (initial context): the context a run starts from is the one
\* create_incident_state returns: stage detected, an incident id that begins
\* with INC-, the three result slots empty, agents_completed and agent_errors
\* empty, retry_count 0 and workflow_complete false; and update_stage, applied
\* to any context of a run, changes the stage field and no other field.
C27_InitialContext ==
    /\ executed = <<>>
          => /\ ctx = create_incident_state(ctx["raw_alert"])
             /\ ctx["stage"] = "detected"
             /\ ctx["incident_id"][1] = "INC-"
             /\ ctx["log_analysis_results"] = EmptyDict
             /\ ctx["knowledge_lookup_results"] = EmptyDict
             /\ ctx["root_cause_results"] = EmptyDict
             /\ ctx["agents_completed"] = <<>>
             /\ ctx["agent_errors"] = <<>>
             /\ ctx["retry_count"] = 0
             /\ ~ctx["workflow_complete"]
    /\ \A new_stage \in Stages :
          /\ DOMAIN update_stage(ctx, new_stage) = DOMAIN ctx
          /\ update_stage(ctx, new_stage)["stage"] = new_stage
          /\ \A k \in DOMAIN ctx \ {"stage"} : update_stage(ctx, new_stage)[k] = ctx[k]

C27_Witness ==
    /\ LastRan("incident_trigger")
    /\ ~Failed("incident_trigger")
    /\ prev = create_incident_state(prev["raw_alert"])
    /\ prev["stage"] = "detected"
    /\ ctx["stage"] = "analyzing"
    /\ \A k \in DOMAIN prev \ {"stage", "service", "severity", "description", "next",
                               "agents_completed"} : ctx[k] = prev[k]

\* values of the field next: the ones the nodes write, the initial "", and
\* one that no node writes
NextValues ==
    {"", "parallel_agents", "error_handler", "decision_maker", "mitigation",
     "escalation", "end", "retry"}

\* C28 (fan-out routing): on any context of a run, with any value of next,
\* route_to_parallel_agents returns the three targets log_analysis,
\* knowledge_lookup and root_cause together when next is parallel_agents,
\* error_handler when next is error_handler, and END otherwise, also when the
\* field is missing; after the trigger the driver is where the router said.
C28_FanOutRouting ==
    /\ \A n \in NextValues :
          LET targets == route_to_parallel_agents([ctx EXCEPT !["next"] = n]) IN
          /\ n = "parallel_agents"
                => Len(targets) = 3 /\ Range(targets) = ExpectedAgents
          /\ n = "error_handler" => targets = <<"error_handler">>
          /\ n \notin {"parallel_agents", "error_handler"} => targets = <<"END">>
    /\ route_to_parallel_agents([k \in DOMAIN ctx \ {"next"} |-> ctx[k]]) = <<"END">>
    /\ LastRan("incident_trigger")
          => /\ pc = Dispatch(route_to_parallel_agents(ctx))
             /\ pc = "parallel_agents" <=> ctx["next"] = "parallel_agents"
             /\ pc = "parallel_agents"
                   => ENABLED LogAnalysis /\ ENABLED KnowledgeLookup /\ ENABLED RootCause

C28_Witness ==
    /\ LastRan("incident_trigger")
    /\ ctx["next"] = "parallel_agents"
    /\ Range(route_to_parallel_agents(ctx)) = ExpectedAgents
    /\ pc = "parallel_agents"
    /\ upd = EmptyDict

-----------------------------------------------------------------------------
(* The process: main.py *)

\* The command-line process around the workflow, from the __main__ block on.
\* Here pc is the function being executed, ctx is the record of the process
\* (mode chosen, caller of run_incident_response, exit code, exception that
\* left main) and executed is the sequence of what happened.  What argparse,
\* setup_logging, input and process_incident do is chosen at their interface.

\* iterations of the demo loop
MaxRounds == 3

ArgOutcomes == {"demo", "alert", "interactive", "help", "usage_error"}

ProcessIncidentOutcomes == {"returned", "Exception", "KeyboardInterrupt"}

DemoChoices ==
    {"0", "scenario", "custom", "custom_empty", "invalid", "EOFError", "KeyboardInterrupt"}

InteractiveChoices ==
    {"0", "1", "1_empty", "2", "invalid", "EOFError", "KeyboardInterrupt"}

InitMain ==
    /\ ctx = [mode |-> "", caller |-> "", rounds |-> 0, exit_code |-> 0, escaped |-> "none"]
    /\ pc = "main"
    /\ snapshot = EmptyDict
    /\ upd = EmptyDict
    /\ executed = <<>>
    /\ prev = EmptyDict
    /\ last = EmptyDict
    /\ calls = EmptyDict

Step(what, outcome) ==
    /\ executed' = Append(executed, <<what, outcome>>)
    /\ UNCHANGED <<snapshot, upd, prev, last, calls>>

\* the process ends: main returned, or `escaped` left main and the __main__
\* block handled it
Exit(code, escaped) ==
    /\ pc' = "exit"
    /\ ctx' = [ctx EXCEPT !["exit_code"] = code, !["escaped"] = escaped]

\* main up to setup_logging: parse_args
Main ==
    /\ pc = "main"
    /\ \E parsed \in ArgOutcomes :
          /\ Step("parse_args", parsed)
          /\ CASE parsed = "help" -> Exit(0, "SystemExit")
               [] parsed = "usage_error" -> Exit(2, "SystemExit")
               [] OTHER -> /\ pc' = "setup_logging"
                           /\ ctx' = [ctx EXCEPT !["mode"] = parsed]

SetupLogging ==
    /\ pc = "setup_logging"
    /\ \E outcome \in {"returned", "Exception"} :
          /\ Step("setup_logging", outcome)
          /\ IF outcome = "Exception" THEN Exit(1, "Exception")
             ELSE /\ pc' = CASE ctx["mode"] = "demo" -> "run_demo"
                             [] ctx["mode"] = "alert" -> "run_incident_response"
                             [] OTHER -> "run_interactive_mode"
                  /\ ctx' = [ctx EXCEPT !["caller"] = "main"]

\* Faulty variant of run_incident_response: no try around process_incident.
RunIncidentResponse_unguarded ==
    /\ pc = "run_incident_response"
    /\ \E outcome \in ProcessIncidentOutcomes :
          /\ Step("process_incident", outcome)
          /\ CASE outcome = "returned" ->
                    IF ctx["caller"] = "run_demo"
                    THEN pc' = "run_demo" /\ UNCHANGED ctx
                    ELSE Exit(0, "none")
               [] outcome = "Exception" ->
                    IF ctx["caller"] = "run_demo"
                    THEN pc' = "run_demo" /\ UNCHANGED ctx
                    ELSE Exit(1, "Exception")
               [] outcome = "KeyboardInterrupt" ->
                    IF ctx["caller"] = "run_demo"
                    THEN Exit(0, "none")
                    ELSE Exit(0, "KeyboardInterrupt")

\* run_incident_response: an Exception of process_incident is caught and
\* printed; a KeyboardInterrupt is not an Exception and goes to the caller:
\* the demo loop breaks on it, the __main__ block prints and ends normally.
RunIncidentResponse ==
    /\ pc = "run_incident_response"
    /\ \E outcome \in ProcessIncidentOutcomes :
          /\ Step("process_incident", outcome)
          /\ IF outcome \in {"returned", "Exception"}
             THEN IF ctx["caller"] = "run_demo"
                  THEN pc' = "run_demo" /\ UNCHANGED ctx
                  ELSE Exit(0, "none")
             ELSE IF ctx["caller"] = "run_demo"
                  THEN Exit(0, "none")
                  ELSE Exit(0, "KeyboardInterrupt")

\* one iteration of the loop of run_demo
RunDemo ==
    /\ pc = "run_demo"
    /\ ctx["rounds"] < MaxRounds
    /\ \E choice \in DemoChoices :
          /\ Step("demo_choice", choice)
          /\ CASE choice \in {"0", "KeyboardInterrupt"} -> Exit(0, "none")
               [] choice \in {"scenario", "custom"} ->
                    /\ pc' = "run_incident_response"
                    /\ ctx' = [ctx EXCEPT !["caller"] = "run_demo",
                                          !["rounds"] = ctx["rounds"] + 1]
               [] OTHER ->
                    /\ pc' = "run_demo"
                    /\ ctx' = [ctx EXCEPT !["rounds"] = ctx["rounds"] + 1]

RunInteractiveMode ==
    /\ pc = "run_interactive_mode"
    /\ \E choice \in InteractiveChoices :
          /\ Step("interactive_choice", choice)
          /\ CASE choice \in {"0", "1_empty", "invalid"} -> Exit(0, "none")
               [] choice = "1" ->
                    /\ pc' = "run_incident_response"
                    /\ ctx' = [ctx EXCEPT !["caller"] = "run_interactive_mode"]
               [] choice = "2" -> pc' = "run_demo" /\ UNCHANGED ctx
               [] choice = "EOFError" -> Exit(1, "Exception")
               [] choice = "KeyboardInterrupt" -> Exit(0, "KeyboardInterrupt")

NextMain ==
    \/ Main
    \/ SetupLogging
    \/ RunIncidentResponse
    \/ RunDemo
    \/ RunInteractiveMode

SpecMain == InitMain /\ [][NextMain]_vars

ProcessIncidentFailed(i) ==
    i \in 1..Len(executed) /\ executed[i] = <<"process_incident", "Exception">>

\* C29 (process exit): an Exception raised by process_incident is caught by
\* run_incident_response: right after it the process either goes on with the
\* demo loop or ends with exit code 0 and no exception having left main; the
\* process ends with a non-zero code only when an exception left main, and that
\* exception never comes from process_incident.
C29_ProcessExit ==
    /\ ProcessIncidentFailed(Len(executed))
          => /\ pc \in {"run_demo", "exit"}
             /\ pc = "exit" => ctx["exit_code"] = 0 /\ ctx["escaped"] = "none"
    /\ (pc = "exit" /\ ctx["exit_code"] # 0)
          => /\ ctx["escaped"] \in {"Exception", "SystemExit"}
             /\ executed[Len(executed)][1] \in {"parse_args", "setup_logging",
                                                "interactive_choice"}
    /\ (pc = "exit" /\ ctx["escaped"] = "none") => ctx["exit_code"] = 0
    /\ pc # "exit" => ctx["exit_code"] = 0 /\ ctx["escaped"] = "none"

C29_Witness ==
    /\ pc = "exit"
    /\ ctx["mode"] = "alert"
    /\ ProcessIncidentFailed(Len(executed))
    /\ ctx["exit_code"] = 0

-----------------------------------------------------------------------------
(* The order of the nodes *)

Before(i) == {executed[j] : j \in 1..(i - 1)}

\* C30 (stage ordering): in the sequence of the nodes a run executed, the
\* trigger is first, a parallel agent comes only after the trigger,
\* agent_coordinator only after all three parallel agents, decision_maker
\* right after agent_coordinator, mitigation or escalation right after
\* decision_maker, and communicator right after mitigation or escalation.
C30_StageOrdering ==
    \A i \in 1..Len(executed) :
        /\ executed[i] = "incident_trigger" <=> i = 1
        /\ executed[i] \in ExpectedAgents
              => "incident_trigger" \in Before(i) /\ executed[i] \notin Before(i)
        /\ executed[i] = "agent_coordinator"
              => ExpectedAgents \subseteq Before(i) /\ executed[i - 1] \in ExpectedAgents
        /\ executed[i] = "decision_maker" => executed[i - 1] = "agent_coordinator"
        /\ executed[i] \in {"mitigation", "escalation"} => executed[i - 1] = "decision_maker"
        /\ executed[i] = "communicator" => executed[i - 1] \in {"mitigation", "escalation"}

C30_Witness ==
    /\ Ended
    /\ Len(executed) = 8
    /\ SubSeq(executed, 2, 4) = <<"log_analysis", "root_cause", "knowledge_lookup">>
    /\ executed[7] = "mitigation"
    /\ executed[8] = "communicator"

-----------------------------------------------------------------------------
(* Nodes in progress *)

SequentialNodes ==
    {"incident_trigger", "agent_coordinator", "decision_maker", "mitigation",
     "escalation", "communicator", "error_handler"}

\* the fan-out of the trigger launched the parallel agents
Launched == executed # <<>> /\ Range(route_to_parallel_agents(snapshot)) = ExpectedAgents

\* The nodes that have started and not returned: the sequential node the
\* driver is at, and the launched parallel agents whose update has not arrived.
InProgress ==
    (IF pc \in SequentialNodes THEN {pc} ELSE {})
        \cup (IF Launched THEN ExpectedAgents \ DOMAIN upd ELSE {})

\* C31 (no overlap of sequential stages): a sequential node in progress is the
\* only node in progress; several nodes are in progress together only when all
\* of them are among log_analysis, knowledge_lookup and root_cause; nothing is
\* in progress once the run ended.
C31_NoOverlap ==
    /\ \A n \in InProgress \cap SequentialNodes : InProgress = {n}
    /\ Cardinality(InProgress) > 1 => InProgress \subseteq ExpectedAgents
    /\ pc = "parallel_agents" <=> (InProgress # {} /\ InProgress \subseteq ExpectedAgents)
    /\ Ended => InProgress = {}

C31_Witness ==
    /\ pc = "parallel_agents"
    /\ DOMAIN upd = {"root_cause"}
    /\ InProgress = {"log_analysis", "knowledge_lookup"}

-----------------------------------------------------------------------------
(* What the branches imply *)

\* the four conditions of the mitigation branch, on the context read by
\* decision_maker
MitigationGuard(state) ==
    /\ Get(state["log_analysis_results"], "anomalies", <<>>) # <<>>
    /\ Get(state["root_cause_results"], "confidence", 0) >= CONFIDENCE_THRESHOLD
    /\ Get(state["knowledge_lookup_results"], "similar_incidents", <<>>) # <<>>
    /\ state["retry_count"] < MAX_RETRIES

\* C32 (mitigation guard): the driver is at mitigation only right after
\* decision_maker read a merged context with a non-empty anomaly list,
\* confidence >= CONFIDENCE_THRESHOLD, a non-empty similar-incident list and
\* retry_count < MAX_RETRIES; a run in which mitigation ran still holds such a
\* context.
C32_MitigationGuard ==
    /\ pc = "mitigation"
          => /\ LastRan("decision_maker")
             /\ MitigationGuard(prev)
             /\ ctx["decision"] = "auto_mitigation"
    /\ Ran("mitigation")
          => /\ Ran("decision_maker")
             /\ MitigationGuard(ctx)
             /\ ctx["decision"] = "auto_mitigation"

C32_Witness ==
    /\ LastRan("mitigation")
    /\ MitigationGuard(prev)
    /\ prev["root_cause_results"]["confidence"] = CONFIDENCE_THRESHOLD
    /\ Len(prev["knowledge_lookup_results"]["similar_incidents"]) = 1
    /\ Len(prev["log_analysis_results"]["anomalies"]) = 1

ParallelFailure == \E a \in ExpectedAgents : Failed(a)

\* C33 (any parallel failure forces escalation): if the process of at least
\* one of log_analysis, knowledge_lookup and root_cause raised, then whatever
\* the order in which the updates were merged, the decision is escalation, the
\* driver never gets to mitigation and mitigation does not run.
C33_FailureForcesEscalation ==
    ParallelFailure
        => /\ pc # "mitigation"
           /\ ~Ran("mitigation")
           /\ Ran("decision_maker")
                 => /\ ctx["decision"] = "escalation"
                    /\ ctx["escalation_reason"] # <<>>
           /\ Ended => Ran("escalation") /\ ctx["stage"] = "escalated"

C33_Witness ==
    /\ Ended
    /\ Failed("root_cause")
    /\ ~Failed("log_analysis") /\ ~Failed("knowledge_lookup")
    /\ executed[2] = "root_cause"
    /\ Len(upd["log_analysis"]["log_analysis_results"]["anomalies"]) > 0
    /\ Len(upd["knowledge_lookup"]["knowledge_lookup_results"]["similar_incidents"]) > 0
    /\ ctx["decision"] = "escalation"
    /\ Ran("escalation")

\* C34 (resolved implies a successful mitigation): the stage is resolved only
\* when the decision was auto_mitigation, mitigation ran and its collaborator
\* reported success; the stage becomes resolved only in the step of mitigation.
C34_ResolvedImpliesMitigated ==
    /\ ctx["stage"] = "resolved"
          => /\ ctx["decision"] = "auto_mitigation"
             /\ Ran("decision_maker")
             /\ Ran("mitigation")
             /\ MitigationReportedSuccess
    /\ (executed # <<>> /\ ctx["stage"] = "resolved" /\ prev["stage"] # "resolved")
          => LastRan("mitigation")

C34_Witness ==
    /\ LastRan("mitigation")
    /\ prev["stage"] = "decision_complete"
    /\ ctx["stage"] = "resolved"
    /\ MitigationReportedSuccess
    /\ ctx["decision"] = "auto_mitigation"

-----------------------------------------------------------------------------
(* The retry rule, the routes out of the decision, and the sequential frame *)

\* C35 (the retry rule is unreachable in a fresh run): in a run started from
\* create_incident_state, retry_count is 0 or 1 throughout, so it is below
\* MAX_RETRIES when decision_maker reads it, and the first decision rule (max
\* retries reached) never gives the reason of the decision.
C35_RetryRuleUnreachable ==
    /\ ctx["retry_count"] \in {0, 1}
    /\ ctx["retry_count"] < MAX_RETRIES
    /\ Ran("decision_maker")
          => /\ ctx["decision_metrics"]["retry_count"] \in {0, 1}
             /\ ctx["escalation_reason"] # RuleReason(1)
    /\ LastRan("decision_maker") => ~RuleMatches(1, prev)

C35_Witness ==
    /\ LastRan("decision_maker")
    /\ prev["retry_count"] = 1
    /\ ctx["decision_metrics"]["retry_count"] = 1
    /\ ctx["escalation_reason"] = RuleReason(2)

\* C36 (the decision never dead-ends): after decision_maker_node ran, next is
\* mitigation or escalation, it is mitigation exactly when the decision is
\* auto_mitigation, and route_after_decision sends the run to that node and
\* not to END; had the node raised, next would be error_handler and the run
\* would go there.
C36_DecisionNeverDeadEnds ==
    LastRan("decision_maker")
        => /\ ctx["next"] \in {"mitigation", "escalation", "error_handler"}
           /\ ctx["next"] = "mitigation" <=> ctx["decision"] = "auto_mitigation"
           /\ ctx["next"] = "escalation" <=> ctx["decision"] = "escalation"
           /\ pc = route_after_decision(ctx)
           /\ pc = ctx["next"]
           /\ ~Ended
           /\ route_after_decision(Merge(prev, decision_maker_node_failed(prev)))
                  = "error_handler"

C36_Witness ==
    /\ LastRan("decision_maker")
    /\ prev["retry_count"] > MAX_RETRIES
    /\ prev["next"] = "decision_maker"
    /\ ctx["next"] = "escalation"
    /\ pc = "escalation"

TaskFailures == Cardinality({n \in DOMAIN calls : calls[n].raised})

\* C37 (frame of the sequential stages): the step of agent_coordinator or of
\* decision_maker leaves the three result slots, retry_count, the set of the
\* completed agents (but for the node's own name) and agent_errors as they
\* were; after decision_maker, agent_errors has as many entries as tasks
\* failed so far.
C37_SequentialFrame ==
    /\ (executed # <<>> /\ LastNode \in {"agent_coordinator", "decision_maker"})
          => /\ ctx["log_analysis_results"] = prev["log_analysis_results"]
             /\ ctx["knowledge_lookup_results"] = prev["knowledge_lookup_results"]
             /\ ctx["root_cause_results"] = prev["root_cause_results"]
             /\ ctx["retry_count"] = prev["retry_count"]
             /\ Range(ctx["agents_completed"]) \ {LastNode} = Range(prev["agents_completed"])
             /\ ctx["agent_errors"] = prev["agent_errors"]
    /\ LastRan("decision_maker") => Len(ctx["agent_errors"]) = TaskFailures

\* C38 (escalated runs carry their reason): the escalation task records in
\* escalation_results the non-empty escalation_reason that decision_maker
\* chose, and a run that ends with stage escalated ran that task and still
\* holds that reason.
C38_EscalationCarriesReason ==
    /\ LastRan("escalation")
          => /\ "escalation_results" \in DOMAIN last
             /\ last["escalation_results"]["reason"] # <<>>
             /\ last["escalation_results"]["reason"] = prev["escalation_reason"]
             /\ last["escalation_results"]["reason"]
                    = ctx["decision_metrics"]["escalation_reason"]
    /\ ctx["stage"] = "escalated"
          => /\ Ran("escalation")
             /\ ctx["decision"] = "escalation"
             /\ ctx["escalation_reason"] # <<>>
             /\ ctx["escalation_reason"] = ctx["decision_metrics"]["escalation_reason"]
             /\ \E i \in 2..4 : ctx["escalation_reason"] = RuleReason(i)

C38_Witness ==
    /\ LastRan("escalation")
    /\ ctx["stage"] = "escalated"
    /\ last["escalation_results"]["reason"] = RuleReason(4)
    /\ prev["escalation_reason"] = RuleReason(4)

====
